---- MODULE Spec2Model ----
(***************************************************************************)
(* Order-tracking backend of iDevice-Order-Details.                        *)
(*                                                                         *)
(* The repository holds three implementations of the same HTTP API:        *)
(*   "backend" : src/temp_extract/backend/src/index.ts  (Hono, role gate)  *)
(*   "server"  : src/server/routes.ts                   (Express, no gate) *)
(*   "seeded"  : src/unnamed/part_000                   (Express, seeds    *)
(*               one device, one order and one event at start-up)          *)
(* The variable impl records which of them is running; every handler is    *)
(* one action whose branches follow the code of that implementation.       *)
(* Tables follow src/shared/schema.ts.                                     *)
(***************************************************************************)
EXTENDS Integers, Sequences, FiniteSets, TLC

VARIABLES
    impl,        \* which implementation is deployed
    now,         \* the clock (epoch time); every request reads a later time
    appUsers,    \* table app_users, in insertion order (id = position)
    devices,     \* table devices
    orders,      \* table orders
    events,      \* table tracking_events
    assets,      \* table assets (a set: rows can be deleted)
    nextAssetId, \* the serial of assets.id
    blobs,       \* keys stored in bucket "assets"
    last,        \* the last request and its response
    pending      \* the requests between two awaits, by time of arrival

vars == <<impl, now, appUsers, devices, orders, events, assets, nextAssetId,
          blobs, last, pending>>

\* ------------------------------------------------------------------ bounds
\* Number of requests served in a behaviour.
MaxRequests == 3

\* ----------------------------------------------------------- value domains
Impls == {"backend", "server", "seeded"}

\* JavaScript undefined (an absent body field) and SQL NULL for text columns.
Undefined == "<undefined>"
Null == "<null>"
\* NULL / undefined for integer columns and ids (serial ids start at 1).
NoId == 0
\* NULL for a timestamp column.
NoDate == 0

AdminAuth == "auth-admin"
UserAuth == "auth-user"
AuthIds == {AdminAuth, UserAuth}
\* Express implementations have no authenticated principal.
Anonymous == "anonymous"

SeedEmail == "john@example.com"
OtherEmail == "eve@example.com"
Emails == {SeedEmail, OtherEmail}
SeedOrderNumber == "ORD-77821"
SeedTrackingNumber == "TRK-99012"
Refs == {SeedOrderNumber, SeedTrackingNumber}
\* Dates a client may send with a tracking event: earlier than every
\* reading of the clock.
BodyDates == {1}
\* The values Math.floor(Math.random() * 100000) takes.
RandInts == {0}

\* --------------------------------------------------------------- helpers
Range(s) == {s[i] : i \in DOMAIN s}

\* JavaScript truthiness of a string-valued body field.
Truthy(v) == v # Undefined /\ v # Null /\ v # ""

\* a || b on strings.
OrElse(a, b) == IF Truthy(a) THEN a ELSE b

\* parseInt on the decimal strings used as route parameters; NaN is -1.
ParseInt(s) ==
    IF \E n \in 0..9 : ToString(n) = s
    THEN CHOOSE n \in 0..9 : ToString(n) = s
    ELSE -1

\* `ORD-${Math.floor(Math.random() * 100000)}`
GenOrderNumber(n) == "ORD-" \o ToString(n)
\* `TRK-${Math.floor(Math.random() * 100000)}`
GenTrackingNumber(n) == "TRK-" \o ToString(n)

tables == <<appUsers, devices, orders, events, assets, nextAssetId, blobs>>

Response(status, body) == [status |-> status, body |-> body]
Forbidden == Response(403, [error |-> "Forbidden"])
\* An exception escaping a handler: the generic server failure.
ServerError == Response(500, [error |-> "Internal Server Error"])

\* ------------------------------------------------------------ role gate
NoUser == [id |-> NoId, authId |-> Null, role |-> Null]

\* select().from(appUsers).where(eq(appUsers.authId, user.id)).limit(1):
\* the rows the query may return as appUser[0] (NoUser: no row).
LookupUser(users, authId) ==
    LET rows == {u \in Range(users) : u.authId = authId}
    IN  IF rows = {} THEN {NoUser} ELSE rows

\* appUser[0]?.role !== 'admin' is false
IsAdmin(row) == row.role = "admin"

\* Whether the handler goes on past its gate. Only backend has one.
Gate(i, row) == i = "backend" => IsAdmin(row)

\* The principals a request can carry.
Callers == IF impl = "backend" THEN AuthIds ELSE {Anonymous}

\* --------------------------------------------------------------- schema
\* insert into orders: NOT NULL and UNIQUE on order_number, UNIQUE on
\* tracking_number, foreign key device_id -> devices.id.
OrderInsertOk(rows, devs, v) ==
    /\ v.orderNumber # Null
    /\ \A o \in Range(rows) : o.orderNumber # v.orderNumber
    /\ \A o \in Range(rows) :
          v.trackingNumber = Null \/ o.trackingNumber # v.trackingNumber
    /\ v.deviceId = NoId \/ v.deviceId \in {d.id : d \in Range(devs)}

\* The row an insert into orders stores: serial id, column defaults
\* (status 'processing', created_at and updated_at now()), NULL for the rest.
OrderRow(rows, v, t) ==
    [id |-> Len(rows) + 1,
     orderNumber |-> v.orderNumber,
     trackingNumber |-> v.trackingNumber,
     deviceId |-> v.deviceId,
     userId |-> NoId,
     customerEmail |-> IF v.customerEmail = Undefined THEN Null ELSE v.customerEmail,
     waybill |-> IF v.waybill = Undefined THEN Null ELSE v.waybill,
     status |-> IF v.status = Undefined THEN "processing" ELSE v.status,
     createdAt |-> t,
     updatedAt |-> t]

\* update orders set ... where id = id: the table after the statement;
\* set maps the columns written to their values.
ApplySet(o, set) ==
    [f \in DOMAIN o |-> IF f \in DOMAIN set THEN set[f] ELSE o[f]]

UpdateRows(rows, id, set) ==
    [i \in DOMAIN rows |-> IF rows[i].id = id THEN ApplySet(rows[i], set) ELSE rows[i]]

\* The unique constraints of orders after an update.
OrdersUnique(rows) ==
    \A i, j \in DOMAIN rows :
        i # j => /\ rows[i].orderNumber # rows[j].orderNumber
                 /\ \/ rows[i].trackingNumber = Null
                    \/ rows[i].trackingNumber # rows[j].trackingNumber

\* ------------------------------------------------------------- requests
StartTime == 10

\* The bookkeeping every handler shares: the request takes place at time
\* now + 1 and its response is recorded.
Serving == now < StartTime + MaxRequests

FinishWith(op, caller, args, resp, calls) ==
    /\ now' = now + 1
    /\ last' = [op |-> op, caller |-> caller, args |-> args, resp |-> resp,
                calls |-> calls]
    /\ UNCHANGED <<impl, pending>>

\* A request that calls no storage service.
Finish(op, caller, args, resp) == FinishWith(op, caller, args, resp, <<>>)

NoArgs == [none |-> TRUE]

\* ------------------------------------------------- JSON response values
JsUndefined == [js |-> "undefined"]
JsNull == [js |-> "null"]
JsObject(v) == [js |-> "object", value |-> v]

\* JSON.stringify of an object literal: a property whose value is
\* undefined is left out.
JsonObject(fields) ==
    [f \in {g \in DOMAIN fields : fields[g] # JsUndefined} |-> fields[f]]

\* list[0] of a query result
FirstRow(rows) == IF rows = {} THEN {JsUndefined} ELSE {JsObject(r) : r \in rows}

\* orderBy(desc(key)): the orders in which the database may return the rows.
Perms(S) ==
    {s \in [1..Cardinality(S) -> S] : \A a, b \in 1..Cardinality(S) : a # b => s[a] # s[b]}
OrderByDesc(S, Key(_)) ==
    {s \in Perms(S) : \A a, b \in DOMAIN s : a < b => Key(s[a]) >= Key(s[b])}

\* ------------------------------------- POST /api/public/order-access
BadRequest ==
    Response(400, [error |-> "Email and Order/Tracking Number are required"])

\* where(and(eq(customerEmail, email), or(eq(orderNumber, reference),
\*                                        eq(trackingNumber, reference))))
MatchingOrders(rows, email, reference) ==
    {o \in Range(rows) :
        /\ o.customerEmail = email
        /\ o.orderNumber = reference \/ o.trackingNumber = reference}

\* The response when no order matches.
NoMatchLeaky(i, rows, email, reference) ==
    IF \E o \in Range(rows) : o.orderNumber = reference \/ o.trackingNumber = reference
    THEN Response(401, [error |-> "Email does not match"])
    ELSE Response(401, [error |-> "Order not found"])
NoMatchResponse(i, rows, email, reference) ==
    IF i = "seeded"
    THEN Response(401, [error |-> "Order not found"])
    ELSE Response(401, [error |-> "Order not found or email does not match"])

\* The device the handler puts in the response.
DeviceOf(i, devs, o) ==
    IF i = "backend"
    THEN FirstRow({d \in Range(devs) : o.deviceId # NoId /\ d.id = o.deviceId})
    ELSE IF o.deviceId # NoId
         THEN FirstRow({d \in Range(devs) : d.id = o.deviceId})
         ELSE {JsNull}

\* The tracking events of the order, as the query orders them.
Timelines(i, evs, orderId) ==
    LET mine == {e \in Range(evs) : e.orderId = orderId}
    IN  IF i = "seeded"
        THEN OrderByDesc(mine, LAMBDA e : e.date)
        ELSE OrderByDesc(mine, LAMBDA e : e.id)

OrderAccessOk(o, dev, timeline) ==
    Response(200, [order |-> JsonObject([row |-> JsObject(o), device |-> dev]),
                   timeline |-> timeline])

\* The responses for a matched request: limit(1) without an ORDER BY
\* returns any one of the matching rows.
OrderAccessHits(i, devs, evs, found) ==
    UNION {UNION {{OrderAccessOk(o, dev, tl) : tl \in Timelines(i, evs, o.id)}
                  : dev \in DeviceOf(i, devs, o)}
           : o \in found}

\* Every response the handler can give in a store state.
OrderAccessResponses(i, rows, devs, evs, email, reference) ==
    IF ~Truthy(email) \/ ~Truthy(reference)
    THEN {BadRequest}
    ELSE LET found == MatchingOrders(rows, email, reference)
         IN  IF found = {}
             THEN {NoMatchResponse(i, rows, email, reference)}
             ELSE OrderAccessHits(i, devs, evs, found)

OrderAccess ==
    /\ Serving
    /\ \E email \in Emails \cup {Undefined}, reference \in {SeedTrackingNumber} :
         \E resp \in OrderAccessResponses(impl, orders, devices, events, email, reference) :
           /\ Finish("orderAccess", Anonymous,
                     [email |-> email, reference |-> reference], resp)
           /\ UNCHANGED tables

\* ------------------------------------------------- POST /api/orders
\* The values the handler hands to insert(orders).
CreateOrderValues(i, body, orderNum, trackNum) ==
    IF i = "seeded"
    THEN \* { ...body, orderNumber: orderNum, trackingNumber: trackNum }
         [body EXCEPT !.orderNumber = orderNum, !.trackingNumber = trackNum]
    ELSE [orderNumber |-> orderNum,
          trackingNumber |-> trackNum,
          deviceId |-> body.deviceId,
          customerEmail |-> body.customerEmail,
          waybill |-> body.waybill,
          status |-> "processing"]

CreateOrderBodies ==
    [orderNumber : {Undefined, SeedTrackingNumber},
     trackingNumber : {Undefined},
     deviceId : {NoId, 1},
     customerEmail : {SeedEmail},
     waybill : {Undefined},
     status : {Undefined, "shipped"}]

CreateOrder ==
    /\ Serving
    /\ \E caller \in Callers :
         \E row \in LookupUser(appUsers, caller) :
           IF ~Gate(impl, row)
           THEN /\ Finish("createOrder", caller, NoArgs, Forbidden)
                /\ UNCHANGED tables
           ELSE \E body \in CreateOrderBodies, r1 \in RandInts, r2 \in RandInts :
                  LET t == now + 1
                      orderNum == OrElse(body.orderNumber, GenOrderNumber(r1))
                      trackNum == OrElse(body.trackingNumber, GenTrackingNumber(r2))
                      v == CreateOrderValues(impl, body, orderNum, trackNum)
                      new == OrderRow(orders, v, t)
                  IN  IF OrderInsertOk(orders, devices, v)
                      THEN /\ orders' = Append(orders, new)
                           /\ Finish("createOrder", caller, body,
                                     Response(200, [data |-> new]))
                           /\ UNCHANGED <<appUsers, devices, events, assets,
                                          nextAssetId, blobs>>
                      ELSE /\ Finish("createOrder", caller, body, ServerError)
                           /\ UNCHANGED tables

\* ------------------------------------------------- PUT /api/orders/:id
\* The body fields the handler copies into updateData.
UpdateFields ==
    {"status", "waybill", "trackingNumber", "orderNumber", "customerEmail"}

\* The columns the handler writes, with their values; empty: no statement.
UpdateOrderSet(i, body, t) ==
    IF i = "seeded"
    THEN \* set({ ...req.body, updatedAt: new Date() })
         [f \in {g \in DOMAIN body : body[g] # Undefined} \cup {"updatedAt"} |->
             IF f = "updatedAt" THEN t ELSE body[f]]
    ELSE \* if (body.f !== undefined) updateData.f = body.f
         [f \in {g \in UpdateFields : body[g] # Undefined} |-> body[f]]

\* res.json({ success: true }); seeded adds data: the row returning() gives.
UpdateOrderResponse(i, after, id) ==
    IF i = "seeded"
    THEN Response(200, [success |-> TRUE,
                        data |-> FirstRow({o \in Range(after) : o.id = id})])
    ELSE Response(200, [success |-> TRUE])

UpdateOrderBodies ==
    {b \in [status : {Undefined, "shipped"},
            waybill : {Undefined},
            trackingNumber : {Undefined},
            orderNumber : {Undefined, SeedTrackingNumber},
            customerEmail : {Undefined, OtherEmail}] :
        Cardinality({f \in DOMAIN b : b[f] # Undefined}) <= 1}

\* Route parameters naming an order: the stored ids and one that is not.
OrderIdParams == {ToString(n) : n \in 1..(Len(orders) + 1)}

UpdateOrder ==
    /\ Serving
    /\ \E caller \in Callers :
         \E row \in LookupUser(appUsers, caller) :
           IF ~Gate(impl, row)
           THEN /\ Finish("updateOrder", caller, NoArgs, Forbidden)
                /\ UNCHANGED tables
           ELSE \E param \in OrderIdParams, body \in UpdateOrderBodies :
                  LET t == now + 1
                      id == ParseInt(param)
                      set == UpdateOrderSet(impl, body, t)
                      after == IF DOMAIN set = {} THEN orders
                               ELSE UpdateRows(orders, id, set)
                      args == [id |-> id, body |-> body]
                  IN  IF OrdersUnique(after)
                      THEN /\ orders' = after
                           /\ Finish("updateOrder", caller, args,
                                     UpdateOrderResponse(impl, after, id))
                           /\ UNCHANGED <<appUsers, devices, events, assets,
                                          nextAssetId, blobs>>
                      ELSE /\ Finish("updateOrder", caller, args, ServerError)
                           /\ UNCHANGED tables

\* ------------------------------------------ POST /api/orders/:id/events
\* The date the handler stores with the event.
EventDate(i, bodyDate, t) ==
    IF i = "backend"
    THEN bodyDate                                   \* date: body.date
    ELSE IF bodyDate # NoDate THEN bodyDate ELSE t  \* body.date ? new Date(body.date) : new Date()

\* The columns of the order the handler writes after the insert.
EventStatusSet(i, updateStatus, t) ==
    IF ~Truthy(updateStatus)
    THEN [f \in {} |-> Null]
    ELSE IF i = "seeded"
         THEN [status |-> updateStatus, updatedAt |-> t]
         ELSE [status |-> updateStatus]

EventBodies ==
    [date : {NoDate} \cup BodyDates,
     location : {"Shah Alam Warehouse"},
     description : {"In transit"},
     updateStatus : {Undefined, "", "shipped"}]

\* The tracking_events table after insert(trackingEvents).values(new).
InsertEventAsLatestOfOrder(rows, new) ==
    Append(SelectSeq(rows, LAMBDA e : e.orderId # new.orderId), new)
InsertEvent(rows, new) ==
    Append(rows, new)

AddEvent ==
    /\ Serving
    /\ \E caller \in Callers :
         \E row \in LookupUser(appUsers, caller) :
           IF ~Gate(impl, row)
           THEN /\ Finish("addEvent", caller, NoArgs, Forbidden)
                /\ UNCHANGED tables
           ELSE \E param \in OrderIdParams, body \in EventBodies :
                  LET t == now + 1
                      id == ParseInt(param)
                      new == [id |-> Len(events) + 1,
                              orderId |-> id,
                              date |-> EventDate(impl, body.date, t),
                              location |-> body.location,
                              description |-> body.description]
                      set == EventStatusSet(impl, body.updateStatus, t)
                      args == [id |-> id, body |-> body]
                  IN  \* tracking_events.order_id references orders.id
                      IF \E o \in Range(orders) : o.id = id
                      THEN /\ events' = InsertEvent(events, new)
                           /\ orders' = IF DOMAIN set = {} THEN orders
                                        ELSE UpdateRows(orders, id, set)
                           /\ Finish("addEvent", caller, args,
                                     Response(200, [data |-> new]))
                           /\ UNCHANGED <<appUsers, devices, assets, nextAssetId, blobs>>
                      ELSE /\ Finish("addEvent", caller, args, ServerError)
                           /\ UNCHANGED tables

\* ------------------------------------------------- GET /api/orders
ListOrders ==
    /\ Serving
    /\ \E caller \in Callers :
         \E row \in LookupUser(appUsers, caller) :
           /\ UNCHANGED tables
           /\ IF ~Gate(impl, row)
              THEN Finish("listOrders", caller, NoArgs, Forbidden)
              ELSE \E list \in OrderByDesc(Range(orders), LAMBDA o : o.createdAt) :
                     Finish("listOrders", caller, NoArgs, Response(200, [data |-> list]))

\* ---------------------------------------------------------- devices
\* GET /api/public/devices
PublicDevices ==
    /\ Serving
    /\ UNCHANGED tables
    /\ Finish("publicDevices", Anonymous, NoArgs, Response(200, [data |-> devices]))

\* GET /api/devices
ListDevices ==
    /\ Serving
    /\ \E caller \in Callers :
         \E row \in LookupUser(appUsers, caller) :
           /\ UNCHANGED tables
           /\ IF ~Gate(impl, row)
              THEN Finish("listDevices", caller, NoArgs, Forbidden)
              ELSE Finish("listDevices", caller, NoArgs, Response(200, [data |-> devices]))

\* The quantity column of a new device: server stores body.quantity || 1,
\* the others leave a missing quantity to the column default 1.
DeviceQuantity(i, q) == IF q = 0 THEN 1 ELSE q

DeviceBodies == [name : {Undefined, "iPad"}, quantity : {0}]

\* POST /api/devices
CreateDevice ==
    /\ Serving
    /\ \E caller \in Callers :
         \E row \in LookupUser(appUsers, caller) :
           IF ~Gate(impl, row)
           THEN /\ Finish("createDevice", caller, NoArgs, Forbidden)
                /\ UNCHANGED tables
           ELSE \E body \in DeviceBodies :
                  LET new == [id |-> Len(devices) + 1,
                              name |-> body.name,
                              quantity |-> DeviceQuantity(impl, body.quantity)]
                  IN  \* devices.name is NOT NULL
                      IF body.name # Undefined
                      THEN /\ devices' = Append(devices, new)
                           /\ Finish("createDevice", caller, body,
                                     Response(200, [data |-> new]))
                           /\ UNCHANGED <<appUsers, orders, events, assets,
                                          nextAssetId, blobs>>
                      ELSE /\ Finish("createDevice", caller, body, ServerError)
                           /\ UNCHANGED tables

\* PUT /api/devices/:id (seeded only): set(req.body)
UpdateDevice ==
    /\ Serving
    /\ impl = "seeded"
    /\ \E id \in 1..(Len(devices) + 1), q \in {5} :
         /\ devices' = UpdateRows(devices, id, [quantity |-> q])
         /\ Finish("updateDevice", Anonymous, [id |-> id, quantity |-> q],
                   Response(200, [data |-> FirstRow({d \in Range(devices') : d.id = id})]))
         /\ UNCHANGED <<appUsers, orders, events, assets, nextAssetId, blobs>>

\* ------------------------------------------------------------ users
\* POST /api/users/sync: server and seeded answer with a mock admin and
\* touch no table; backend looks the principal up and inserts it if absent.
MockAdmin == [id |-> 1, authId |-> Null, role |-> "admin"]

UsersSync ==
    /\ Serving
    /\ \E caller \in Callers :
         IF impl # "backend"
         THEN /\ Finish("sync", caller, NoArgs, Response(200, [user |-> MockAdmin]))
              /\ UNCHANGED tables
         ELSE \E existing \in LookupUser(appUsers, caller) :
                IF existing = NoUser
                THEN LET new == [id |-> Len(appUsers) + 1, authId |-> caller,
                                 role |-> "user"]
                     IN  /\ appUsers' = Append(appUsers, new)
                         /\ Finish("sync", caller, NoArgs, Response(200, [user |-> new]))
                         /\ UNCHANGED <<devices, orders, events, assets, nextAssetId, blobs>>
                ELSE /\ Finish("sync", caller, NoArgs, Response(200, [user |-> existing]))
                     /\ UNCHANGED tables

\* GET /api/users
ListUsers ==
    /\ Serving
    /\ \E caller \in Callers :
         \E row \in LookupUser(appUsers, caller) :
           /\ UNCHANGED tables
           /\ IF ~Gate(impl, row)
              THEN Finish("listUsers", caller, NoArgs, Forbidden)
              ELSE Finish("listUsers", caller, NoArgs, Response(200, [data |-> appUsers]))

\* PUT /api/users/:id/role (backend only)
UpdateRole ==
    /\ Serving
    /\ impl = "backend"
    /\ \E caller \in Callers :
         \E row \in LookupUser(appUsers, caller) :
           IF ~Gate(impl, row)
           THEN /\ Finish("updateRole", caller, NoArgs, Forbidden)
                /\ UNCHANGED tables
           ELSE \E id \in 1..(Len(appUsers) + 1), role \in {"admin", "user"} :
                  /\ appUsers' = UpdateRows(appUsers, id, [role |-> role])
                  /\ Finish("updateRole", caller, [id |-> id, role |-> role],
                            Response(200, [success |-> TRUE]))
                  /\ UNCHANGED <<devices, orders, events, assets, nextAssetId, blobs>>

\* POST /api/users/link-order (backend only, no role gate)
LinkOrder ==
    /\ Serving
    /\ impl = "backend"
    /\ \E caller \in Callers, userId \in {1}, ident \in {SeedTrackingNumber, "1"} :
         LET found == {o \in Range(orders) :
                          \/ o.orderNumber = ident
                          \/ o.trackingNumber = ident
                          \/ o.id = (IF ParseInt(ident) = -1 THEN 0 ELSE ParseInt(ident))}
             args == [userId |-> userId, orderIdentifier |-> ident]
         IN  IF found = {}
             THEN /\ Finish("linkOrder", caller, args,
                            Response(404, [error |-> "Order not found"]))
                  /\ UNCHANGED tables
             ELSE \E o \in found :
                    /\ orders' = UpdateRows(orders, o.id, [userId |-> userId])
                    /\ Finish("linkOrder", caller, args, Response(200, [success |-> TRUE]))
                    /\ UNCHANGED <<appUsers, devices, events, assets, nextAssetId, blobs>>

\* ----------------------------------------------------------- assets
Bucket == "assets"
\* edgespark.storage.toS3Uri(bucket, key) and fromS3Uri(uri)
ToS3Uri(bucket, key) == [scheme |-> "s3", bucket |-> bucket, path |-> key]
FromS3Uri(uri) == [bucket |-> uri.bucket, path |-> uri.path]
NoUrl == [scheme |-> "", bucket |-> "", path |-> ""]

\* createPresignedGetUrl(path, 3600)
PresignedGetUrl(path, ttl) == [js |-> "string", path |-> path, ttl |-> ttl]

\* { ...a, downloadUrl }
WithDownloadUrl(a, u) ==
    [f \in DOMAIN a \cup {"downloadUrl"} |-> IF f = "downloadUrl" THEN u ELSE a[f]]

\* One element of assetsWithUrls; failed: the presigning of this asset throws.
AssetWithoutUrlOnFailure(a, failed) ==
    IF a.url = NoUrl \/ failed THEN a
    ELSE WithDownloadUrl(a, PresignedGetUrl(FromS3Uri(a.url).path, 3600))
AssetWithUrl(a, failed) ==
    IF a.url = NoUrl THEN a
    ELSE IF failed THEN WithDownloadUrl(a, JsNull)
    ELSE WithDownloadUrl(a, PresignedGetUrl(FromS3Uri(a.url).path, 3600))

\* POST /api/assets/upload (backend only)
UploadAsset ==
    /\ Serving
    /\ impl = "backend"
    /\ \E caller \in Callers :
         \E row \in LookupUser(appUsers, caller) :
           IF ~Gate(impl, row)
           THEN /\ Finish("uploadAsset", caller, NoArgs, Forbidden)
                /\ UNCHANGED tables
           ELSE \E file \in {Undefined, "photo.png"} :
                  LET t == now + 1
                      key == ToString(t) \o "-" \o file
                      new == [id |-> nextAssetId, filename |-> file,
                              url |-> ToS3Uri(Bucket, key), uploadedAt |-> t]
                  IN  IF file = Undefined
                      THEN /\ Finish("uploadAsset", caller, [file |-> file],
                                     Response(400, [error |-> "No file uploaded"]))
                           /\ UNCHANGED tables
                      ELSE /\ blobs' = blobs \cup {key}
                           /\ assets' = assets \cup {new}
                           /\ nextAssetId' = nextAssetId + 1
                           /\ FinishWith("uploadAsset", caller, [file |-> file],
                                         Response(200, [data |-> new]),
                                         <<[call |-> "storage.put", path |-> key]>>)
                           /\ UNCHANGED <<appUsers, devices, orders, events>>

\* GET /api/assets (backend: gate and presigned urls; seeded: the bare rows)
ListAssets ==
    /\ Serving
    /\ impl # "server"
    /\ \E caller \in Callers :
         \E row \in LookupUser(appUsers, caller) :
           /\ UNCHANGED tables
           /\ IF ~Gate(impl, row)
              THEN Finish("listAssets", caller, NoArgs, Forbidden)
              ELSE \E list \in OrderByDesc(assets, LAMBDA a : a.uploadedAt),
                      failing \in SUBSET {a.id : a \in assets} :
                     Finish("listAssets", caller, [failing |-> failing],
                            Response(200,
                              [data |-> IF impl = "seeded" THEN list
                                        ELSE [k \in DOMAIN list |->
                                               AssetWithUrl(list[k], list[k].id \in failing)]]))

\* DELETE /api/assets/:id (backend only)
\* found: the rows of select().from(assets).where(eq(assets.id, id)).limit(1)
DeleteAssetAlwaysOk(found) == Response(200, [success |-> TRUE])
DeleteAssetResponse(found) ==
    IF found = {}
    THEN Response(404, [error |-> "Not found"])
    ELSE Response(200, [success |-> TRUE])

\* The calls to the blob store the handler makes.
DeleteAssetCalls(found) ==
    IF found = {} THEN {<<>>}
    ELSE {<<[call |-> "storage.delete", path |-> FromS3Uri(a.url).path]>> : a \in found}

\* The assets table after the handler's delete statement. The statement
\* runs after the try/catch around storage.delete, whatever that did.
AssetsAfterDeleteUnlessBlobFails(rows, id, blobFails) ==
    IF blobFails THEN rows ELSE {x \in rows : x.id # id}
AssetsAfterDelete(rows, id, blobFails) ==
    {x \in rows : x.id # id}

DeleteAsset ==
    /\ Serving
    /\ impl = "backend"
    /\ \E caller \in Callers :
         \E row \in LookupUser(appUsers, caller) :
           IF ~Gate(impl, row)
           THEN /\ Finish("deleteAsset", caller, NoArgs, Forbidden)
                /\ UNCHANGED tables
           ELSE \E param \in {ToString(n) : n \in 1..nextAssetId}, blobFails \in BOOLEAN :
                  LET id == ParseInt(param)
                      found == {a \in assets : a.id = id}
                  IN  \E calls \in DeleteAssetCalls(found) :
                        \* the blob goes unless storage.delete throws; the
                        \* exception is caught and logged
                        /\ blobs' = IF blobFails THEN blobs
                                    ELSE blobs \ {c.path : c \in Range(calls)}
                        \* delete(assets).where(eq(assets.id, id))
                        /\ assets' = IF found = {} THEN assets
                                     ELSE AssetsAfterDelete(assets, id, blobFails)
                        /\ FinishWith("deleteAsset", caller,
                                      [id |-> id, blobFails |-> blobFails /\ found # {}],
                                      DeleteAssetResponse(found), calls)
                        /\ UNCHANGED <<appUsers, devices, orders, events, nextAssetId>>

\* ------------------------------------------------------ specification
SeedDevice == [id |-> 1, name |-> "MacBook Pro 14-inch", quantity |-> 10]
SeedOrder ==
    [id |-> 1, orderNumber |-> SeedOrderNumber, trackingNumber |-> SeedTrackingNumber,
     deviceId |-> 1, userId |-> NoId, customerEmail |-> SeedEmail, waybill |-> Null,
     status |-> "processing", createdAt |-> StartTime, updatedAt |-> StartTime]
SeedEvent ==
    [id |-> 1, orderId |-> 1, date |-> StartTime, location |-> "Shah Alam Warehouse",
     description |-> "Order processed and ready for packing"]
InitialAdmin == [id |-> 1, authId |-> AdminAuth, role |-> "admin"]

\* The database outlives the process. seeded starts on the rows it seeds
\* when devices is empty; backend and server start on a fresh database or
\* on one that already holds such rows (rows createDevice, createOrder and
\* addEvent store). backend's first admin is made in the database: no
\* request can make one.
Init ==
    /\ impl \in Impls
    /\ now = StartTime
    /\ appUsers \in (IF impl = "backend" THEN {<<>>, <<InitialAdmin>>} ELSE {<<>>})
    /\ \E populated \in (IF impl = "seeded" THEN {TRUE} ELSE BOOLEAN) :
         /\ devices = IF populated THEN <<SeedDevice>> ELSE <<>>
         /\ orders = IF populated THEN <<SeedOrder>> ELSE <<>>
         /\ events = IF populated THEN <<SeedEvent>> ELSE <<>>
    /\ assets = {}
    /\ nextAssetId = 1
    /\ blobs = {}
    /\ last = [op |-> "start", caller |-> Anonymous, args |-> NoArgs,
               resp |-> Response(0, NoArgs), calls |-> <<>>]
    /\ pending = <<>>

Next ==
    \/ PublicDevices
    \/ OrderAccess
    \/ UsersSync
    \/ ListUsers
    \/ UpdateRole
    \/ LinkOrder
    \/ UploadAsset
    \/ ListAssets
    \/ DeleteAsset
    \/ ListDevices
    \/ CreateDevice
    \/ UpdateDevice
    \/ ListOrders
    \/ CreateOrder
    \/ UpdateOrder
    \/ AddEvent

Spec == Init /\ [][Next]_vars

\* ------------------------------------------- handlers, await by await
\* A handler runs up to its next await in one step; steps of requests in
\* flight interleave. Spec above serves each request alone; SpecSteps
\* serves sync, order-access, addEvent and updateOrder statement by
\* statement.

\* The tables order-access reads.
StoreOf(ords, devs, evs) == [orders |-> ords, devices |-> devs, events |-> evs]

\* A request waiting on its statement pc. read: what the handler holds in
\* its locals. seen: the stores that existed since an order-access read
\* its order.
PendingRequest(op, pc, caller, args, read, seen) ==
    [op |-> op, pc |-> pc, caller |-> caller, args |-> args, read |-> read,
     seen |-> seen]

\* The requests in flight after a statement left the tables as store.
Observe(reqs, store) ==
    [r \in DOMAIN reqs |->
        IF reqs[r].op = "orderAccess"
        THEN [reqs[r] EXCEPT !.seen = @ \cup {store}]
        ELSE reqs[r]]

Without(reqs, rid) == [r \in DOMAIN reqs \ {rid} |-> reqs[r]]

\* The handler reaches its first await that a later statement follows.
Arrive(req) ==
    /\ now' = now + 1
    /\ pending' = (now + 1 :> req) @@ pending
    /\ UNCHANGED <<impl, last>>

\* The handler goes on to its next await.
Continue(rid, pc, read, reqs) ==
    /\ pending' = [reqs EXCEPT ![rid].pc = pc, ![rid].read = read]
    /\ UNCHANGED <<impl, now, last>>

\* The handler answers.
Reply(rid, resp, reqs) ==
    /\ last' = [op |-> pending[rid].op, caller |-> pending[rid].caller,
                args |-> pending[rid].args, resp |-> resp, calls |-> <<>>]
    /\ pending' = Without(reqs, rid)
    /\ UNCHANGED <<impl, now>>

\* POST /api/users/sync of backend: the select, and the answer when a row
\* exists.
SyncSelect ==
    /\ Serving
    /\ impl = "backend"
    /\ \E caller \in Callers :
         \E existing \in LookupUser(appUsers, caller) :
           /\ IF existing = NoUser
              THEN Arrive(PendingRequest("sync", "insert", caller, NoArgs, NoArgs, {}))
              ELSE Finish("sync", caller, NoArgs, Response(200, [user |-> existing]))
           /\ UNCHANGED tables

\* the insert after a select that found no row
SyncInsert ==
    \E rid \in DOMAIN pending :
       /\ pending[rid].op = "sync"
       /\ LET new == [id |-> Len(appUsers) + 1, authId |-> pending[rid].caller,
                      role |-> "user"]
          IN  /\ appUsers' = Append(appUsers, new)
              /\ Reply(rid, Response(200, [user |-> new]), pending)
       /\ UNCHANGED <<devices, orders, events, assets, nextAssetId, blobs>>

\* POST /api/public/order-access: the validation and the select on orders.
OrderAccessSelectOrder ==
    /\ Serving
    /\ \E email \in Emails, reference \in {SeedTrackingNumber} :
         LET args == [email |-> email, reference |-> reference]
             found == MatchingOrders(orders, email, reference)
         IN  /\ IF ~Truthy(email) \/ ~Truthy(reference)
                THEN Finish("orderAccess", Anonymous, args, BadRequest)
                ELSE IF found = {}
                THEN Finish("orderAccess", Anonymous, args,
                            NoMatchResponse(impl, orders, email, reference))
                ELSE \E o \in found :
                       Arrive(PendingRequest(
                                "orderAccess",
                                \* if (order.deviceId); backend always selects
                                IF impl = "backend" \/ o.deviceId # NoId
                                THEN "device" ELSE "events",
                                Anonymous, args, [order |-> o, device |-> JsNull],
                                {StoreOf(orders, devices, events)}))
             /\ UNCHANGED tables

\* the select on devices
OrderAccessSelectDevice ==
    \E rid \in DOMAIN pending :
       /\ pending[rid].op = "orderAccess"
       /\ pending[rid].pc = "device"
       /\ \E dev \in DeviceOf(impl, devices, pending[rid].read.order) :
            Continue(rid, "events", [pending[rid].read EXCEPT !.device = dev], pending)
       /\ UNCHANGED tables

\* the select on tracking_events, and the answer
OrderAccessSelectEvents ==
    \E rid \in DOMAIN pending :
       /\ pending[rid].op = "orderAccess"
       /\ pending[rid].pc = "events"
       /\ LET read == pending[rid].read
          IN  \E timeline \in Timelines(impl, events, read.order.id) :
                Reply(rid, OrderAccessOk(read.order, read.device, timeline), pending)
       /\ UNCHANGED tables

\* The bodies of the addEvent and updateOrder requests served statement by
\* statement.
StepEventBodies == {b \in EventBodies : b.date = NoDate /\ b.updateStatus # ""}
StepUpdateBodies ==
    {b \in UpdateOrderBodies : b.orderNumber = Undefined /\ b.customerEmail = Undefined}

\* POST /api/orders/:id/events: the gate.
AddEventArrive ==
    /\ Serving
    /\ \E caller \in Callers :
         \E row \in LookupUser(appUsers, caller) :
           /\ IF ~Gate(impl, row)
              THEN Finish("addEvent", caller, NoArgs, Forbidden)
              ELSE \E param \in OrderIdParams, body \in StepEventBodies :
                     Arrive(PendingRequest("addEvent", "insert", caller,
                                           [id |-> ParseInt(param), body |-> body],
                                           NoArgs, {}))
           /\ UNCHANGED tables

\* the insert into tracking_events, and the answer without updateStatus
AddEventInsert ==
    \E rid \in DOMAIN pending :
       /\ pending[rid].op = "addEvent"
       /\ pending[rid].pc = "insert"
       /\ LET id == pending[rid].args.id
              body == pending[rid].args.body
              new == [id |-> Len(events) + 1,
                      orderId |-> id,
                      date |-> EventDate(impl, body.date, now),
                      location |-> body.location,
                      description |-> body.description]
              after == InsertEvent(events, new)
              reqs == Observe(pending, StoreOf(orders, devices, after))
          IN  IF \E o \in Range(orders) : o.id = id
              THEN /\ events' = after
                   /\ IF Truthy(body.updateStatus)
                      THEN Continue(rid, "status", [data |-> new], reqs)
                      ELSE Reply(rid, Response(200, [data |-> new]), reqs)
                   /\ UNCHANGED <<appUsers, devices, orders, assets, nextAssetId, blobs>>
              ELSE /\ Reply(rid, ServerError, pending)
                   /\ UNCHANGED tables

\* the update of orders.status, and the answer
AddEventUpdateStatus ==
    \E rid \in DOMAIN pending :
       /\ pending[rid].op = "addEvent"
       /\ pending[rid].pc = "status"
       /\ LET set == EventStatusSet(impl, pending[rid].args.body.updateStatus, now)
              after == UpdateRows(orders, pending[rid].args.id, set)
          IN  /\ orders' = after
              /\ Reply(rid, Response(200, pending[rid].read),
                       Observe(pending, StoreOf(after, devices, events)))
       /\ UNCHANGED <<appUsers, devices, events, assets, nextAssetId, blobs>>

\* PUT /api/orders/:id: the gate.
UpdateOrderArrive ==
    /\ Serving
    /\ \E caller \in Callers :
         \E row \in LookupUser(appUsers, caller) :
           /\ IF ~Gate(impl, row)
              THEN Finish("updateOrder", caller, NoArgs, Forbidden)
              ELSE \E param \in OrderIdParams, body \in StepUpdateBodies :
                     Arrive(PendingRequest("updateOrder", "update", caller,
                                           [id |-> ParseInt(param), body |-> body],
                                           NoArgs, {}))
           /\ UNCHANGED tables

\* the update of orders, and the answer
UpdateOrderUpdate ==
    \E rid \in DOMAIN pending :
       /\ pending[rid].op = "updateOrder"
       /\ LET id == pending[rid].args.id
              set == UpdateOrderSet(impl, pending[rid].args.body, now)
              after == IF DOMAIN set = {} THEN orders
                       ELSE UpdateRows(orders, id, set)
          IN  IF OrdersUnique(after)
              THEN /\ orders' = after
                   /\ Reply(rid, UpdateOrderResponse(impl, after, id),
                            Observe(pending, StoreOf(after, devices, events)))
                   /\ UNCHANGED <<appUsers, devices, events, assets, nextAssetId, blobs>>
              ELSE /\ Reply(rid, ServerError, pending)
                   /\ UNCHANGED tables

NextSteps ==
    \/ SyncSelect
    \/ SyncInsert
    \/ OrderAccessSelectOrder
    \/ OrderAccessSelectDevice
    \/ OrderAccessSelectEvents
    \/ AddEventArrive
    \/ AddEventInsert
    \/ AddEventUpdateStatus
    \/ UpdateOrderArrive
    \/ UpdateOrderUpdate

SpecSteps == Init /\ [][NextSteps]_vars

\* ================================================================ claims
AdminOps ==
    {"listUsers", "updateRole", "uploadAsset", "listAssets", "deleteAsset",
     "listDevices", "createDevice", "listOrders", "createOrder", "updateOrder",
     "addEvent"}

\* The principal of a request has an AppUser row with role admin.
HasAdminRow(users, caller) ==
    \E u \in Range(users) : u.authId = caller /\ u.role = "admin"

\* C1: a request to an admin-only endpoint by a principal without an admin
\* AppUser row is answered 403 and writes to no table and not to the blob
\* store.
C1_AdminOnly ==
    [][(last'.op \in AdminOps /\ ~HasAdminRow(appUsers, last'.caller))
          => (last'.resp = Forbidden /\ UNCHANGED tables)]_vars

\* The orders of a store that belong to the email.
OwnedBy(rows, email) == SelectSeq(rows, LAMBDA o : o.customerEmail = email)

\* C2: a non-empty (email, reference) that matches no order gets the same
\* 401 response whether or not the reference exists under another email:
\* the responses in the store and in the store without the orders of other
\* emails are the same, and the response given is the one an empty store
\* gives.
C2_UniformMiss ==
    /\ \A email \in Emails, reference \in Refs :
          MatchingOrders(orders, email, reference) = {}
          => /\ OrderAccessResponses(impl, orders, devices, events, email, reference)
                = OrderAccessResponses(impl, OwnedBy(orders, email), devices, events,
                                       email, reference)
             /\ \A r \in OrderAccessResponses(impl, orders, devices, events,
                                              email, reference) : r.status = 401
    /\ (/\ last.op = "orderAccess"
        /\ Truthy(last.args.email) /\ Truthy(last.args.reference)
        /\ MatchingOrders(orders, last.args.email, last.args.reference) = {})
       => /\ last.resp.status = 401
          /\ last.resp \in OrderAccessResponses(impl, <<>>, devices, events,
                                                last.args.email, last.args.reference)

\* C2's case: a miss on a reference that an order of another email carries.
C2_Witness ==
    /\ last.op = "orderAccess"
    /\ last.resp.status = 401
    /\ \E o \in Range(orders) :
          /\ o.customerEmail # last.args.email
          /\ o.trackingNumber = last.args.reference \/ o.orderNumber = last.args.reference

\* The order a successful order-access answered with.
AnsweredOrder == last.resp.body.order.row.value

\* C3: a successful order-access returns exactly the tracking events of the
\* matched order, sorted by date descending (an event stored without a date
\* has no place in that order and is left out of the comparison).
C3_TimelineByDate ==
    (last.op = "orderAccess" /\ last.resp.status = 200)
    => LET tl == last.resp.body.timeline
           mine == {e \in Range(events) : e.orderId = AnsweredOrder.id}
       IN  /\ Range(tl) = mine
           /\ Len(tl) = Cardinality(mine)
           /\ \A a, b \in DOMAIN tl :
                 (a < b /\ tl[a].date # NoDate /\ tl[b].date # NoDate)
                 => tl[a].date >= tl[b].date

\* C4: a successful order-access carries order.device: null when the order
\* has no deviceId, the Device row with that id otherwise.
C4_DevicePresent ==
    (last.op = "orderAccess" /\ last.resp.status = 200)
    => /\ "device" \in DOMAIN last.resp.body.order
       /\ IF AnsweredOrder.deviceId = NoId
          THEN last.resp.body.order.device = JsNull
          ELSE \E d \in Range(devices) :
                  /\ d.id = AnsweredOrder.deviceId
                  /\ last.resp.body.order.device = JsObject(d)

\* C5: an order createOrder stores has status processing, in the table and
\* in the response, whatever the body.
C5_CreatedProcessing ==
    (last.op = "createOrder" /\ last.resp.status = 200)
    => /\ last.resp.body.data.status = "processing"
       /\ \A o \in Range(orders) :
             o.id = last.resp.body.data.id => o.status = "processing"

\* The request was served past the role gate (the body was read).
Served(l, op) == l.op = op /\ l.resp.status # 403

\* C6: updateOrder with a body without any recognized field writes nothing
\* and answers success true.
C6_EmptyUpdateNoWrite ==
    [][(/\ Served(last', "updateOrder")
        /\ \A f \in UpdateFields : last'.args.body[f] = Undefined)
          => (orders' = orders /\ last'.resp.status = 200
              /\ last'.resp.body.success)]_vars

\* C7: updateOrder applying a field to an existing order sets its
\* updatedAt to the time of the call, later than the stored one.
C7_UpdatedAtRefreshed ==
    [][(/\ Served(last', "updateOrder")
        /\ last'.resp.status = 200
        /\ \E f \in UpdateFields : last'.args.body[f] # Undefined)
          => \A k \in DOMAIN orders :
                orders[k].id = last'.args.id
                => /\ orders'[k].updatedAt = now'
                   /\ orders'[k].updatedAt > orders[k].updatedAt]_vars

\* C8: addEvent with updateStatus v changes the status of that order to v
\* and no other field of any order; without updateStatus it changes no
\* order.
C8_EventStatusFrame ==
    [][(Served(last', "addEvent") /\ last'.resp.status = 200)
          => IF Truthy(last'.args.body.updateStatus)
             THEN orders' = UpdateRows(orders, last'.args.id,
                                       [status |-> last'.args.body.updateStatus])
             ELSE last'.args.body.updateStatus = Undefined => orders' = orders]_vars

\* C9: an admin's asset listing succeeds whichever presignings fail; it
\* holds every stored asset once, with downloadUrl null where the
\* presigning failed and the presigned url elsewhere.
C9_ListAssetsDegrades ==
    (last.op = "listAssets" /\ last.resp.status # 403)
    => LET data == last.resp.body.data
       IN  /\ last.resp.status = 200
           /\ Len(data) = Cardinality(assets)
           /\ \A a \in assets :
                 \E k \in DOMAIN data :
                    /\ \A f \in DOMAIN a : data[k][f] = a[f]
                    /\ "downloadUrl" \in DOMAIN data[k]
                    /\ data[k].downloadUrl =
                          IF a.id \in last.args.failing
                          THEN JsNull
                          ELSE PresignedGetUrl(FromS3Uri(a.url).path, 3600)

\* C9's case: a listing in which one presigning failed and another did not.
C9_Witness ==
    /\ last.op = "listAssets"
    /\ last.resp.status = 200
    /\ \E a, b \in assets : a.id \in last.args.failing /\ b.id \notin last.args.failing

\* C10: an admin's delete of an id without an Asset row answers 404,
\* leaves assets and blobs as they were and calls no blob deletion.
C10_DeleteMissing ==
    [][(/\ Served(last', "deleteAsset")
        /\ \A a \in assets : a.id # last'.args.id)
          => /\ last'.resp.status = 404
             /\ assets' = assets
             /\ blobs' = blobs
             /\ last'.calls = <<>>]_vars

\* C10's case: a 404 delete while assets and blobs are stored.
C10_Witness ==
    /\ last.op = "deleteAsset"
    /\ last.resp.status = 404
    /\ assets # {}
    /\ blobs # {}

\* C11: under every interleaving of the statements of sync calls no
\* external auth id has more than one AppUser row, and the caller of an
\* answered sync has exactly one.
C11_OneUserPerAuthId ==
    /\ \A a \in AuthIds :
          Cardinality({k \in DOMAIN appUsers : appUsers[k].authId = a}) <= 1
    /\ (last.op = "sync" /\ last.resp.status = 200)
          => Cardinality({k \in DOMAIN appUsers :
                             appUsers[k].authId = last.caller}) = 1

\* C12: a stored AppUser is never removed; its role changes only in an
\* updateRole call of a caller whose stored role is admin; a row appears
\* only in a sync call and carries role user; the role a sync call
\* reports is the role of the caller's stored row; a store without an
\* admin row stays without one.
C12_RoleOnlyByAdmin ==
    [][/\ \A k \in DOMAIN appUsers :
             /\ k \in DOMAIN appUsers'
             /\ appUsers'[k].id = appUsers[k].id
             /\ appUsers'[k].authId = appUsers[k].authId
             /\ appUsers'[k].role # appUsers[k].role
                  => /\ last'.op = "updateRole"
                     /\ HasAdminRow(appUsers, last'.caller)
       /\ \A k \in DOMAIN appUsers' \ DOMAIN appUsers :
             last'.op = "sync" /\ appUsers'[k].role = "user"
       /\ (last'.op = "sync" /\ last'.resp.status = 200)
             => \E u \in Range(appUsers') :
                   /\ u.authId = last'.caller
                   /\ u.role = last'.resp.body.user.role
       /\ (\A u \in Range(appUsers) : u.role # "admin")
             => \A u \in Range(appUsers') : u.role # "admin"]_vars

\* C13: the 200 response of an order-access call is a response the handler
\* gives on one of the stores that existed between the call's first read
\* and its answer.
C13_SnapshotResponse ==
    [][\A rid \in DOMAIN pending :
          (/\ pending[rid].op = "orderAccess"
           /\ rid \notin DOMAIN pending')
             => \E store \in pending[rid].seen :
                   last'.resp \in OrderAccessResponses(
                                     impl, store.orders, store.devices, store.events,
                                     pending[rid].args.email,
                                     pending[rid].args.reference)]_vars

\* C14: an admin's delete of a stored asset answers 200 with success true
\* and leaves no Asset row of that id, whether the blob deletion fails or
\* not; a failed blob deletion leaves the blobs as they were.
C14_DeleteExisting ==
    [][(/\ Served(last', "deleteAsset")
        /\ \E a \in assets : a.id = last'.args.id)
          => /\ last'.resp.status = 200
             /\ last'.resp.body.success
             /\ \A a \in assets' : a.id # last'.args.id
             /\ last'.args.blobFails => blobs' = blobs]_vars

\* C14's case: a delete answered 200 whose blob deletion failed, the blob
\* still stored and the row gone.
C14_Witness ==
    /\ last.op = "deleteAsset"
    /\ last.resp.status = 200
    /\ last.args.blobFails
    /\ \E c \in Range(last.calls) : c.path \in blobs
    /\ \A a \in assets : a.id # last.args.id

\* C15: the event addEvent stores and returns carries the date of the
\* body when the body has one and the time of the call otherwise.
C15_EventDateDefault ==
    (last.op = "addEvent" /\ last.resp.status = 200)
    => LET date == IF last.args.body.date = NoDate
                   THEN now ELSE last.args.body.date
       IN  /\ last.resp.body.data.date = date
           /\ \E e \in Range(events) :
                 e.id = last.resp.body.data.id /\ e.date = date

\* C16: every step keeps every stored tracking event, with all its fields,
\* and keeps every Device and Order row.
C16_AppendOnly ==
    [][/\ \A k \in DOMAIN events :
             k \in DOMAIN events' /\ events'[k] = events[k]
       /\ \A k \in DOMAIN devices :
             k \in DOMAIN devices' /\ devices'[k].id = devices[k].id
       /\ \A k \in DOMAIN orders :
             k \in DOMAIN orders' /\ orders'[k].id = orders[k].id]_vars

\* C16's case: an event was added to an order that already had one, and
\* both are stored.
C16_Witness ==
    /\ last.op = "addEvent"
    /\ last.resp.status = 200
    /\ \E e, f \in Range(events) :
          /\ e.id = last.resp.body.data.id
          /\ f.id # e.id
          /\ f.orderId = e.orderId

\* C17: no email and reference match more than one stored order.
C17_LookupUnambiguous ==
    \A email \in Emails, reference \in Refs :
       Cardinality(MatchingOrders(orders, email, reference)) <= 1

====
